---- MODULE Spec2Model ----
(***************************************************************************)
(* Model of the nimbus WebSocket hub (src/server/ws.ts, setupWebSocket)    *)
(* together with its callers: the REST skyeyes routes                      *)
(* (src/server/routes.ts) and the dashboard message handler                *)
(* (src/server/index.ts).                                                  *)
(*                                                                         *)
(* Node runs every handler to completion on one event loop, so each        *)
(* handler, timer callback and socket event is one atomic action.  A       *)
(* promise continuation (the code after `await`) runs in the microtask     *)
(* queue right after the settling callback, before any other event, and    *)
(* is folded into the action that settles the promise.                     *)
(*                                                                         *)
(* Timers are abstracted from wall-clock time: an armed timeout may fire   *)
(* at any later step, the heartbeat interval may tick at any step.         *)
(*                                                                         *)
(* The second half models the session capture loop of a worker             *)
(* (src/workers/Worker.ts): its screen differencing, its activity          *)
(* classifier and its status.  The hub and the workers share no state;     *)
(* Spec runs the hub, WorkerSpec runs one session, FleetSpec runs all      *)
(* sessions of the manager (src/workers/WorkerManager.ts) side by side.    *)
(* The interval timer of a session is the one timer whose order matters:   *)
(* a tick's renderer callback comes due before the next tick.              *)
(***************************************************************************)
EXTENDS Integers, Sequences, FiniteSets, TLC

\* ------------------------------------------------------------------ bounds
\* Length of the input history: sockets that connect, requests that are made
\* and bridge messages that are handled, in all.
MaxEvents == 5
\* Number of worker operations begun (capture ticks, sends, interrupts,
\* starts, shutdowns), in all.
MaxOps == 3

\* Length of the input history in the runs checked for liveness.
LiveEvents == 4

\* ------------------------------------------------------ values and inputs
Pages == {"shiro", "foam"}     \* page keys (two of the configured repos)
Conns == {1, 2}                \* bridge sockets, numbered as they connect
Dash  == {1}                   \* dashboard sockets
Ids   == {1, 2}                \* request ids, in the order randomUUID makes them
NoConn == 0
NoPage == "-"

\* (result, error) fields a skyeyes_result message may carry
Payloads == { [result |-> "ok",    error |-> "null"],
              [result |-> "undef", error |-> "boom"] }
\* level of a skyeyes_console message
Levels == {"log"}
\* REST entry points that call sendToSkyeyes: "exec" stands for the two routes
\* that await the result (POST .../exec and GET .../eval, which differ only in
\* how they render the awaited result), "reload" for the one that does not.
Kinds == {"exec", "reload"}

TimeoutMessage == "Skyeyes eval timed out"

\* worker ids (config.repos names)
Workers == {"shiro", "foam"}
\* texts given to sendMessage (shorter than the 120 characters kept as task)
Texts == {"fix the build"}

VARIABLES
  skyeyesBridges,    \* Map page -> ws            (ws.ts:14), NoConn = no entry
  aliveBridges,      \* WeakSet of ws             (ws.ts:17)
  pendingEvals,      \* keys of Map id -> {resolve,reject} (ws.ts:16)
  dashboardClients,  \* Set of dashboard ws       (ws.ts:13)
  timers,            \* ids whose setTimeout is armed (ws.ts:138)
  readyState,        \* ws.readyState of each bridge socket
  closeBy,           \* how each bridge socket started closing
  connPage,          \* page query parameter of each bridge socket
  sent,              \* ids of the eval commands put on each bridge socket, in order
  pingOutstanding,   \* registered sockets pinged by the last sweep, no pong since
  dashState,         \* ws.readyState of each dashboard socket
  dashInbox,         \* per dashboard socket: messages sent to it (count, and the last)
  nextId,            \* next fresh randomUUID()
  reqPage,           \* page each request id was issued for
  reqKind,           \* entry point that issued each request id
  handle,            \* the promise returned by waitForSkyeyesResult
  settleCalls,       \* calls made to that promise's resolve/reject functions
  response,          \* HTTP status sent for each request id (0 = none yet)
  calls,             \* per page, ids in the order sendToSkyeyes was called
  msgCount,          \* bridge messages handled so far
  redelivered        \* ids whose result message was handled again, unchanged

VARIABLES
  status,            \* state.status of each worker              (Worker.ts:79)
  currentTask,       \* state.currentTask                        (Worker.ts:81)
  lastError,         \* state.lastError                          (Worker.ts:82)
  outputLog,         \* state.outputLog, entries [type, content] (Worker.ts:83)
  pollTimer,         \* this.pollTimer: "null" or "set"          (Worker.ts:52)
  lastScreenText,    \* this.lastScreenText                      (Worker.ts:54)
  writing,           \* captureOutput calls waiting for terminal.write's callback
  startCalls,        \* start() calls in flight: in sleep(200), in sleep(2000)
  session,           \* whether the worker's tmux session exists
  logEvents,         \* calls made to callbacks.onLogEntry
  stateEvents,       \* calls made to callbacks.onStateChange
  ops,               \* worker operations begun so far
  lastTick,          \* how each worker's latest capture tick ended
  halted             \* shutdown() was called and start() not since

hubVars  == <<skyeyesBridges, aliveBridges, pendingEvals, dashboardClients, timers>>
wsVars   == <<readyState, closeBy, connPage, sent, pingOutstanding>>
dashVars == <<dashState, dashInbox>>
reqVars  == <<nextId, reqPage, reqKind, handle, settleCalls, response, calls>>
msgVars  == <<msgCount, redelivered>>
workerVars == <<status, currentTask, lastError, outputLog, pollTimer, lastScreenText,
                writing, startCalls, session, logEvents, stateEvents, ops, lastTick, halted>>
vars == <<skyeyesBridges, aliveBridges, pendingEvals, dashboardClients, timers,
          readyState, closeBy, connPage, sent, pingOutstanding,
          dashState, dashInbox,
          nextId, reqPage, reqKind, handle, settleCalls, response, calls,
          msgCount, redelivered,
          status, currentTask, lastError, outputLog, pollTimer, lastScreenText,
          writing, startCalls, session, logEvents, stateEvents, ops, lastTick, halted>>

NoMsg == [type |-> "-", page |-> NoPage, id |-> 0,
          result |-> "-", error |-> "-", level |-> "-"]

NoHandle == [state |-> "none", result |-> "-", error |-> "-", via |-> NoConn]

Init ==
  /\ skyeyesBridges = [k \in Pages |-> NoConn]
  /\ aliveBridges = {}
  /\ pendingEvals = {}
  /\ dashboardClients = {}
  /\ timers = {}
  /\ readyState = [c \in Conns |-> "NONE"]
  /\ closeBy = [c \in Conns |-> "none"]
  /\ connPage = [c \in Conns |-> NoPage]
  /\ sent = [c \in Conns |-> <<>>]
  /\ pingOutstanding = {}
  /\ dashState = [d \in Dash |-> "NONE"]
  /\ dashInbox = [d \in Dash |-> [n |-> 0, last |-> NoMsg]]
  /\ nextId = 1
  /\ reqPage = [i \in Ids |-> NoPage]
  /\ reqKind = [i \in Ids |-> "-"]
  /\ handle = [i \in Ids |-> NoHandle]
  /\ settleCalls = [i \in Ids |-> 0]
  /\ response = [i \in Ids |-> 0]
  /\ calls = [k \in Pages |-> <<>>]
  /\ msgCount = 0
  /\ redelivered = {}
  /\ status = [w \in Workers |-> "idle"]
  /\ currentTask = [w \in Workers |-> "null"]
  /\ lastError = [w \in Workers |-> "null"]
  /\ outputLog = [w \in Workers |-> <<>>]
  /\ pollTimer = [w \in Workers |-> "null"]
  /\ lastScreenText = [w \in Workers |-> <<>>]
  /\ writing = [w \in Workers |-> 0]
  /\ startCalls = [w \in Workers |-> [pre |-> 0, post |-> 0]]
  /\ session = [w \in Workers |-> FALSE]
  /\ logEvents = [w \in Workers |-> 0]
  /\ stateEvents = [w \in Workers |-> 0]
  /\ ops = 0
  /\ lastTick = [w \in Workers |-> "none"]
  /\ halted = [w \in Workers |-> FALSE]


\* ---------------------------------------------------------------- helpers

\* Sockets that connected, requests made and bridge messages handled so far
EventsUsed ==
  Cardinality({c \in Conns : readyState[c] # "NONE"})
    + Cardinality({d \in Dash : dashState[d] # "NONE"})
    + (nextId - 1) + msgCount

\* ws emits "message"/"pong" while the socket is OPEN, and still does after
\* the hub's own close(): the closing handshake keeps reading until the
\* peer's close frame arrives.  A terminated or peer-closed socket is silent.
Receivable(c) ==
  \/ readyState[c] = "OPEN"
  \/ readyState[c] = "CLOSING" /\ closeBy[c] = "replaced"

WsClose_Forgotten(rs, c) == rs

\* ws.close(4000, "replaced"): an OPEN socket starts the closing handshake,
\* on a socket already CLOSING or CLOSED the call changes nothing.
WsClose(rs, c) ==
  IF rs[c] = "OPEN" THEN [rs EXCEPT ![c] = "CLOSING"] ELSE rs

WsCloseReason(cb, c, why) ==
  IF readyState[c] = "OPEN" THEN [cb EXCEPT ![c] = why] ELSE cb

\* function broadcast(msg): send to every dashboard client that is OPEN
broadcast(msg) ==
  [d \in Dash |->
     IF d \in dashboardClients /\ dashState[d] = "OPEN"
       THEN [n |-> dashInbox[d].n + 1, last |-> msg]
       ELSE dashInbox[d]]

\* sendToSkyeyes's return value
CanSend(page) ==
  /\ skyeyesBridges[page] # NoConn
  /\ readyState[skyeyesBridges[page]] = "OPEN"

sendToSkyeyes_Twice(page, cmd) ==
  IF CanSend(page)
    THEN [sent EXCEPT ![skyeyesBridges[page]] = Append(Append(@, cmd), cmd)]
    ELSE sent

sendToSkyeyes_Prepend(page, cmd) ==
  IF CanSend(page)
    THEN [sent EXCEPT ![skyeyesBridges[page]] = <<cmd>> \o @]
    ELSE sent

\* sendToSkyeyes's effect on the sockets: ws.send(JSON.stringify(cmd))
sendToSkyeyes(page, cmd) ==
  IF CanSend(page)
    THEN [sent EXCEPT ![skyeyesBridges[page]] = Append(@, cmd)]
    ELSE sent

\* the id field of the command { type: "eval", id, code }
EvalCmd(id) == id

\* getSkyeyesStatus(): one entry per registered page, true iff its socket is OPEN
getSkyeyesStatus ==
  [k \in {p \in Pages : skyeyesBridges[p] # NoConn} |->
     readyState[skyeyesBridges[k]] = "OPEN"]

\* A promise settles once; later calls of resolve/reject are ignored.
Settle(h, st, res, err, c) ==
  IF h.state = "pending"
    THEN [state |-> st, result |-> res, error |-> err, via |-> c]
    ELSE h

\* Status the REST handler answers with once the awaited promise resolved:
\* res.json(result)
ResolvedStatus(kind, payload) == 200

ResultMsg(page, id, payload) ==
  [type |-> "skyeyes_result", page |-> page, id |-> id,
   result |-> payload.result, error |-> payload.error, level |-> "-"]

ConsoleMsg_Untagged(page, level) ==
  [type |-> "skyeyes_console", page |-> NoPage, id |-> 0,
   result |-> "-", error |-> "-", level |-> level]

ConsoleMsg(page, level) ==
  [type |-> "skyeyes_console", page |-> page, id |-> 0,
   result |-> "-", error |-> "-", level |-> level]

\* ---------------------------------------------------------------- actions

\* Page keys are interchangeable strings: the second key comes into use only
\* after the first has been used by a socket or a request.
PageOrder(page) ==
  \/ page = "shiro"
  \/ \E c \in Conns : connPage[c] = "shiro"
  \/ \E i \in Ids : reqPage[i] = "shiro"

AliveAfterConnect_Unmarked(c) == aliveBridges

\* aliveBridges.add(ws) in the connection handler: mark alive on connect
AliveAfterConnect(c) == aliveBridges \cup {c}

AliveAfterPong_Lost(c) == aliveBridges

\* aliveBridges.add(ws) in ws.on("pong")
AliveAfterPong(c) == aliveBridges \cup {c}

\* wss.on("connection") with pathname /skyeyes
ConnectSkyeyes(c, page) ==
  /\ readyState[c] = "NONE"
  /\ PageOrder(page)
  /\ EventsUsed < MaxEvents
  /\ \A b \in Conns : b < c => readyState[b] # "NONE"   \* sockets are numbered as they arrive
  /\ LET oldWs == skyeyesBridges[page]
         replaces == oldWs # NoConn /\ oldWs # c
     IN /\ readyState' = [(IF replaces THEN WsClose(readyState, oldWs) ELSE readyState)
                            EXCEPT ![c] = "OPEN"]
        /\ closeBy' = IF replaces THEN WsCloseReason(closeBy, oldWs, "replaced") ELSE closeBy
  /\ skyeyesBridges' = [skyeyesBridges EXCEPT ![page] = c]
  /\ aliveBridges' = AliveAfterConnect(c)
  /\ connPage' = [connPage EXCEPT ![c] = page]
  /\ pingOutstanding' = pingOutstanding \ {skyeyesBridges[page]}
  /\ UNCHANGED <<pendingEvals, dashboardClients, timers, sent>>
  /\ UNCHANGED <<dashVars, reqVars, msgVars>>
  /\ UNCHANGED workerVars

\* wss.on("connection") with any other pathname: a dashboard client
ConnectDashboard(d) ==
  /\ dashState[d] = "NONE"
  /\ EventsUsed < MaxEvents
  /\ \A b \in Dash : b < d => dashState[b] # "NONE"
  /\ dashState' = [dashState EXCEPT ![d] = "OPEN"]
  /\ dashboardClients' = dashboardClients \cup {d}
  /\ UNCHANGED <<skyeyesBridges, aliveBridges, pendingEvals, timers, dashInbox>>
  /\ UNCHANGED <<wsVars, reqVars, msgVars>>
  /\ UNCHANGED workerVars

\* ws.on("pong") of a bridge socket
Pong(c) ==
  /\ Receivable(c)
  /\ aliveBridges' = AliveAfterPong(c)
  /\ pingOutstanding' = pingOutstanding \ {c}
  /\ UNCHANGED <<skyeyesBridges, pendingEvals, dashboardClients, timers>>
  /\ UNCHANGED <<readyState, closeBy, connPage, sent>>
  /\ UNCHANGED <<dashVars, reqVars, msgVars>>
  /\ UNCHANGED workerVars


\* The message (id, payload) from socket c is one the hub handled before:
\* it is the message that resolved the request.
AlreadyDelivered(c, id, payload) ==
  /\ handle[id].state = "resolved"
  /\ handle[id].via = c
  /\ handle[id].result = payload.result
  /\ handle[id].error = payload.error

PendingAfterResult_NoDelete(id) == pendingEvals

\* pendingEvals after the skyeyes_result branch: pendingEvals.delete(msg.id)
\* inside `if (pending)`
PendingAfterResult(id) == pendingEvals \ {id}

TimersAfterResolve_NoClear(id) == timers

\* the wrapped resolve of waitForSkyeyesResult: clearTimeout(timer)
TimersAfterResolve(id) == timers \ {id}

ResolveValue_NoError(payload) == [result |-> payload.result, error |-> "null"]

\* the value handed to pending.resolve: { result: msg.result, error: msg.error }
ResolveValue(payload) == [result |-> payload.result, error |-> payload.error]

\* ws.on("message") of a bridge socket, msg.type === "skyeyes_result"
SkyeyesResult(c, id, payload) ==
  /\ Receivable(c)
  /\ EventsUsed < MaxEvents
  /\ id < nextId
  /\ IF id \in pendingEvals
       THEN /\ timers' = TimersAfterResolve(id)
            /\ handle' = [handle EXCEPT ![id] =
                 Settle(@, "resolved", ResolveValue(payload).result,
                        ResolveValue(payload).error, c)]
            /\ settleCalls' = [settleCalls EXCEPT ![id] = @ + 1]
            /\ response' = [response EXCEPT ![id] =
                 IF handle[id].state = "pending"
                   THEN ResolvedStatus(reqKind[id], ResolveValue(payload)) ELSE @]
            /\ pendingEvals' = PendingAfterResult(id)
       ELSE UNCHANGED <<timers, handle, settleCalls, response, pendingEvals>>
  /\ dashInbox' = broadcast(ResultMsg(connPage[c], id, payload))
  /\ msgCount' = msgCount + 1
  /\ redelivered' = IF AlreadyDelivered(c, id, payload)
                      THEN redelivered \cup {id} ELSE redelivered
  /\ UNCHANGED <<skyeyesBridges, aliveBridges, dashboardClients>>
  /\ UNCHANGED <<wsVars, dashState, nextId, reqPage, reqKind, calls>>
  /\ UNCHANGED workerVars

\* ws.on("message") of a bridge socket, msg.type === "skyeyes_console"
SkyeyesConsole(c, level) ==
  /\ Receivable(c)
  /\ EventsUsed < MaxEvents
  /\ dashInbox' = broadcast(ConsoleMsg(connPage[c], level))
  /\ msgCount' = msgCount + 1
  /\ UNCHANGED <<hubVars, wsVars, dashState, reqVars, redelivered>>
  /\ UNCHANGED workerVars

\* ws.on("message") of a bridge socket, msg.type === "ping": the hub answers
\* {type: "pong"} on the same socket and touches none of its maps (the reply
\* is not an eval command and is not recorded in sent).
SkyeyesPing(c) ==
  /\ Receivable(c)
  /\ EventsUsed < MaxEvents
  /\ msgCount' = msgCount + 1
  /\ UNCHANGED <<hubVars, readyState, closeBy, connPage, sent, pingOutstanding>>
  /\ UNCHANGED <<dashVars, reqVars, redelivered>>
  /\ UNCHANGED workerVars

\* The peer starts closing (close frame received): readyState is CLOSING
\* until the "close" event is emitted.
PeerClose(c) ==
  /\ readyState[c] = "OPEN"
  /\ readyState' = [readyState EXCEPT ![c] = "CLOSING"]
  /\ closeBy' = [closeBy EXCEPT ![c] = "peer"]
  /\ UNCHANGED <<hubVars, connPage, sent, pingOutstanding>>
  /\ UNCHANGED <<dashVars, reqVars, msgVars>>
  /\ UNCHANGED workerVars

BridgesAfterClose_All(c) == [k \in Pages |-> NoConn]

BridgesAfterClose_Unchecked(c) == [skyeyesBridges EXCEPT ![connPage[c]] = NoConn]

\* skyeyesBridges after ws.on("close"): delete only if the entry is this socket
BridgesAfterClose(c) ==
  IF skyeyesBridges[connPage[c]] = c
    THEN [skyeyesBridges EXCEPT ![connPage[c]] = NoConn]
    ELSE skyeyesBridges

\* ws.on("close") of a bridge socket (after a closing handshake, a terminate,
\* or an abrupt loss of the transport)
BridgeClose(c) ==
  /\ readyState[c] \in {"OPEN", "CLOSING"}
  /\ readyState' = [readyState EXCEPT ![c] = "CLOSED"]
  /\ closeBy' = [closeBy EXCEPT ![c] = IF @ = "none" THEN "peer" ELSE @]
  /\ skyeyesBridges' = BridgesAfterClose(c)
  /\ pingOutstanding' = pingOutstanding \ {c}
  /\ UNCHANGED <<aliveBridges, pendingEvals, dashboardClients, timers>>
  /\ UNCHANGED <<connPage, sent>>
  /\ UNCHANGED <<dashVars, reqVars, msgVars>>
  /\ UNCHANGED workerVars

\* A dashboard peer starts closing.
DashPeerClose(d) ==
  /\ dashState[d] = "OPEN"
  /\ dashState' = [dashState EXCEPT ![d] = "CLOSING"]
  /\ UNCHANGED <<hubVars, wsVars, dashInbox, reqVars, msgVars>>
  /\ UNCHANGED workerVars

ClientsAfterClose_Kept(d) == dashboardClients

\* dashboardClients.delete(ws) in ws.on("close") of a dashboard socket
ClientsAfterClose(d) == dashboardClients \ {d}

\* ws.on("close") of a dashboard socket
DashClose(d) ==
  /\ dashState[d] \in {"OPEN", "CLOSING"}
  /\ dashState' = [dashState EXCEPT ![d] = "CLOSED"]
  /\ dashboardClients' = ClientsAfterClose(d)
  /\ UNCHANGED <<skyeyesBridges, aliveBridges, pendingEvals, timers>>
  /\ UNCHANGED <<wsVars, dashInbox, reqVars, msgVars>>
  /\ UNCHANGED workerVars


Waits_Never(page, kind) == FALSE

Waits_Unsent(page, kind) == kind # "reload"

\* Whether a REST handler goes on to waitForSkyeyesResult: only after
\* sendToSkyeyes returned true (otherwise it has answered 503 and returned),
\* and never in the reload route, which answers without waiting.
Waits(page, kind) == CanSend(page) /\ kind # "reload"

PendingAfterRoute_Late(page, id, kind) == pendingEvals

PendingAfterRoute_Unchecked(page, id, kind) == pendingEvals \cup {id}

\* pendingEvals.set(id, ...) in waitForSkyeyesResult
PendingAfterRoute(page, id, kind) ==
  IF Waits(page, kind) THEN pendingEvals \cup {id} ELSE pendingEvals

\* app.post("/api/skyeyes/:page/exec"), app.get("/api/skyeyes/:page/eval")
\* (with and without ?json=1) and app.post("/api/skyeyes/:page/reload"),
\* for a request that carries code (one without is answered 400 before the
\* hub is touched).  sendToSkyeyes and the executor of the promise made by
\* waitForSkyeyesResult run in the same turn of the event loop.
RestRequest(page, kind) ==
  /\ nextId \in Ids
  /\ PageOrder(page)
  /\ EventsUsed < MaxEvents
  /\ LET id == nextId IN
       /\ nextId' = id + 1
       /\ reqPage' = [reqPage EXCEPT ![id] = page]
       /\ reqKind' = [reqKind EXCEPT ![id] = kind]
       /\ calls' = [calls EXCEPT ![page] = Append(@, id)]
       /\ sent' = sendToSkyeyes(page, EvalCmd(id))
       /\ pendingEvals' = PendingAfterRoute(page, id, kind)
       /\ timers' = IF Waits(page, kind) THEN timers \cup {id} ELSE timers
       /\ handle' = IF Waits(page, kind)
                      THEN [handle EXCEPT ![id].state = "pending"] ELSE handle
       /\ response' = [response EXCEPT ![id] =
                         IF ~CanSend(page) THEN 503
                         ELSE IF kind = "reload" THEN 200 ELSE @]
  /\ UNCHANGED <<skyeyesBridges, aliveBridges, dashboardClients>>
  /\ UNCHANGED <<readyState, closeBy, connPage, pingOutstanding>>
  /\ UNCHANGED <<dashVars, settleCalls, msgVars>>
  /\ UNCHANGED workerVars

\* wsHub.onClientMessage handler, case "skyeyes_exec", run by the dashboard
\* socket's ws.on("message"): sendToSkyeyes only, its result is ignored and
\* no pending entry is made.  The dashboard sends a fresh randomUUID as id.
DashExec(d, page) ==
  /\ dashState[d] = "OPEN"
  /\ nextId \in Ids
  /\ PageOrder(page)
  /\ EventsUsed < MaxEvents
  /\ LET id == nextId IN
       /\ nextId' = id + 1
       /\ reqPage' = [reqPage EXCEPT ![id] = page]
       /\ reqKind' = [reqKind EXCEPT ![id] = "dash"]
       /\ calls' = [calls EXCEPT ![page] = Append(@, id)]
       /\ sent' = sendToSkyeyes(page, EvalCmd(id))
  /\ UNCHANGED <<hubVars, readyState, closeBy, connPage, pingOutstanding>>
  /\ UNCHANGED <<dashVars, handle, settleCalls, response, msgVars>>
  /\ UNCHANGED workerVars

PendingAfterTimeout_NoDelete(id) == pendingEvals

\* pendingEvals.delete(id) in the setTimeout callback
PendingAfterTimeout(id) == pendingEvals \ {id}

\* The setTimeout callback of waitForSkyeyesResult, and the catch branch of
\* the REST handler that awaits the promise (504).
TimeoutFire(id) ==
  /\ id \in timers
  /\ timers' = timers \ {id}
  /\ pendingEvals' = PendingAfterTimeout(id)
  /\ handle' = [handle EXCEPT ![id] = Settle(@, "rejected", "-", TimeoutMessage, NoConn)]
  /\ settleCalls' = [settleCalls EXCEPT ![id] = @ + 1]
  /\ response' = [response EXCEPT ![id] = IF handle[id].state = "pending" THEN 504 ELSE @]
  /\ UNCHANGED <<skyeyesBridges, aliveBridges, dashboardClients>>
  /\ UNCHANGED <<wsVars, dashVars, nextId, reqPage, reqKind, calls, msgVars>>
  /\ UNCHANGED workerVars

\* Pages the sweep finds dead: registered, and not in aliveBridges
DeadPages ==
  {k \in Pages : skyeyesBridges[k] # NoConn /\ skyeyesBridges[k] \notin aliveBridges}

\* Pages the sweep pings: registered, and in aliveBridges
PingedPages ==
  {k \in Pages : skyeyesBridges[k] # NoConn /\ skyeyesBridges[k] \in aliveBridges}

AliveAfterSweep_NoReset == aliveBridges

\* aliveBridges.delete(bridgeWs) for every socket the sweep pings
AliveAfterSweep == aliveBridges \ {skyeyesBridges[k] : k \in PingedPages}

\* skyeyesBridges.delete(page) for every dead page
BridgesAfterSweep ==
  [k \in Pages |-> IF k \in DeadPages THEN NoConn ELSE skyeyesBridges[k]]

\* The setInterval callback bridgePingTimer: one pass over skyeyesBridges.
\* ws.terminate() destroys the socket: readyState is CLOSING until "close".
HeartbeatSweep ==
  LET deadWs == {skyeyesBridges[k] : k \in DeadPages}
      pingedWs == {skyeyesBridges[k] : k \in PingedPages}
  IN /\ skyeyesBridges' = BridgesAfterSweep
     /\ aliveBridges' = AliveAfterSweep
     /\ readyState' = [c \in Conns |->
          IF c \in deadWs /\ readyState[c] # "CLOSED" THEN "CLOSING" ELSE readyState[c]]
     /\ closeBy' = [c \in Conns |->
          IF c \in deadWs /\ readyState[c] # "CLOSED" THEN "terminated" ELSE closeBy[c]]
     /\ pingOutstanding' = (pingOutstanding \ deadWs) \cup pingedWs
     /\ UNCHANGED <<pendingEvals, dashboardClients, timers, connPage, sent>>
     /\ UNCHANGED <<dashVars, reqVars, msgVars>>
     /\ UNCHANGED workerVars

Next ==
  \/ \E c \in Conns, page \in Pages : ConnectSkyeyes(c, page)
  \/ \E d \in Dash : ConnectDashboard(d)
  \/ \E c \in Conns : Pong(c)
  \/ \E c \in Conns, id \in Ids, payload \in Payloads : SkyeyesResult(c, id, payload)
  \/ \E c \in Conns, level \in Levels : SkyeyesConsole(c, level)
  \/ \E c \in Conns : SkyeyesPing(c)
  \/ \E c \in Conns : PeerClose(c)
  \/ \E c \in Conns : BridgeClose(c)
  \/ \E d \in Dash : DashPeerClose(d)
  \/ \E d \in Dash : DashClose(d)
  \/ \E page \in Pages, kind \in Kinds : RestRequest(page, kind)
  \/ \E d \in Dash, page \in Pages : DashExec(d, page)
  \/ \E id \in Ids : TimeoutFire(id)
  \/ HeartbeatSweep

Spec == Init /\ [][Next]_vars

\* The hub with its timers running: Node runs the callback of every armed
\* setTimeout (the process is kept alive by the HTTP server).
\* Runs of at most LiveEvents inputs.
\* the step keeps the input history within LiveEvents
Within == EventsUsed' <= LiveEvents

LiveNext ==
  \/ \E c \in Conns, page \in Pages : ConnectSkyeyes(c, page) /\ Within
  \/ \E d \in Dash : ConnectDashboard(d) /\ Within
  \/ \E c \in Conns : Pong(c) /\ Within
  \/ \E c \in Conns, id \in Ids, payload \in Payloads : SkyeyesResult(c, id, payload) /\ Within
  \/ \E c \in Conns, level \in Levels : SkyeyesConsole(c, level) /\ Within
  \/ \E c \in Conns : SkyeyesPing(c) /\ Within
  \/ \E c \in Conns : PeerClose(c) /\ Within
  \/ \E c \in Conns : BridgeClose(c) /\ Within
  \/ \E d \in Dash : DashPeerClose(d) /\ Within
  \/ \E d \in Dash : DashClose(d) /\ Within
  \/ \E page \in Pages, kind \in Kinds : RestRequest(page, kind) /\ Within
  \/ \E d \in Dash, page \in Pages : DashExec(d, page) /\ Within
  \/ \E id \in Ids : TimeoutFire(id) /\ Within
  \/ HeartbeatSweep /\ Within

LiveSpec == Init /\ [][LiveNext]_vars /\ \A id \in Ids : WF_vars(TimeoutFire(id))


\* ================================================================ workers
\* Text is a sequence of characters (strings of length one), so that the
\* string methods the capture loop uses are computed, not assumed.

NL == "\n"
\* the character U+276F of the idle prompt
Glyph == "GLYPH"

\* characters String.prototype.trim removes
WhiteSpace == {" ", NL, "\t"}

\* the class \w of a regular expression
WordChars ==
  {"a","b","c","d","e","f","g","h","i","j","k","l","m","n","o","p","q","r","s",
   "t","u","v","w","x","y","z","A","B","C","D","E","F","G","H","I","J","K","L",
   "M","N","O","P","Q","R","S","T","U","V","W","X","Y","Z","0","1","2","3","4",
   "5","6","7","8","9","_"}

RECURSIVE trimStart(_)
trimStart(t) ==
  IF t # <<>> /\ Head(t) \in WhiteSpace THEN trimStart(Tail(t)) ELSE t

RECURSIVE trimEnd(_)
trimEnd(t) ==
  IF t # <<>> /\ t[Len(t)] \in WhiteSpace THEN trimEnd(SubSeq(t, 1, Len(t) - 1)) ELSE t

trim(t) == trimEnd(trimStart(t))

\* text.split("\n")
RECURSIVE split(_)
split(t) ==
  IF \E i \in 1..Len(t) : t[i] = NL
    THEN LET i == CHOOSE k \in 1..Len(t) : t[k] = NL /\ \A j \in 1..(k - 1) : t[j] # NL
         IN <<SubSeq(t, 1, i - 1)>> \o split(SubSeq(t, i + 1, Len(t)))
    ELSE <<t>>

\* lines.join("\n")
RECURSIVE join(_)
join(lines) ==
  IF lines = <<>> THEN <<>>
  ELSE IF Len(lines) = 1 THEN lines[1]
  ELSE lines[1] \o <<NL>> \o join(Tail(lines))

\* s.startsWith(p)
startsWith(s, p) == Len(p) <= Len(s) /\ SubSeq(s, 1, Len(p)) = p

\* s.slice(n)
slice(s, n) == SubSeq(s, n + 1, Len(s))

\* s.includes(sub)
includes(s, sub) ==
  \E i \in 1..(Len(s) - Len(sub) + 1) : SubSeq(s, i, i + Len(sub) - 1) = sub

\* .filter((l) => l.trim())
nonBlank(lines) == SelectSeq(lines, LAMBDA l : trim(l) # <<>>)

\* text.split("\n").filter((l) => l.trim()).join("\n")
joined(text) == join(nonBlank(split(text)))

\* ------------------------------------------------- terminal and screens
\* rows of the headless terminal (50 in the source, 4 here)
Rows == 4
\* lines of the tail the classifier looks at (10 in the source, 2 here)
TailLines == 2

L_blank == <<>>
L_a == <<"a">>
L_b == <<"b">>
L_c == <<"c">>
L_d == <<"d">>
L_cd == <<"c", "d">>
L_x == <<"x">>
L_y == <<"y">>
L_glyph == <<Glyph, " ">>
L_gt == <<">", " ">>
L_read == <<"R", "e", "a", "d">>
L_bash == <<"B", "a", "s", "h", "(", "l", "s", ")">>
L_reading == <<"R", "e", "a", "d", "i", "n", "g", " ", "f", "i", "l", "e", ".", ".", ".">>
L_try == <<Glyph, " ">> \o <<"T", "r", "y", " ", "\"", "E", "d", "i", "t", " ", "f", "o", "o", "\"">>

\* Terminal buffers the renderer is seen to hold, row by row; a row holds its
\* cells up to the last one written, trailing blanks included.
Buffers ==
  { <<L_blank, L_blank, L_blank, L_blank>>,
    <<L_a, L_b, L_c, L_blank>>,
    <<L_a, L_b, L_c, L_d>>,
    <<L_a, L_b, L_cd, L_blank>>,
    <<L_a, L_blank, L_b, L_c>>,
    <<L_x, L_y, L_blank, L_blank>>,
    <<L_a, L_glyph, L_blank, L_blank>>,
    <<L_a, L_bash, L_blank, L_blank>>,
    <<L_read, L_gt, L_blank, L_blank>>,
    <<L_reading, L_gt, L_blank, L_blank>>,
    <<L_try, L_blank, L_blank, L_blank>>,
    <<L_read, L_a, L_b, L_gt>> }

\* readTerminalBuffer(term): every row trimEnd()-ed, rows joined with "\n"
readTerminalBuffer(buf) == join([y \in 1..Rows |-> trimEnd(buf[y])])

Screens == {readTerminalBuffer(buf) : buf \in Buffers}

\* The screen texts of the scenarios
ScreenABC  == readTerminalBuffer(<<L_a, L_b, L_c, L_blank>>)
ScreenABCD == readTerminalBuffer(<<L_a, L_b, L_c, L_d>>)
ScreenXY   == readTerminalBuffer(<<L_x, L_y, L_blank, L_blank>>)
ScreenBlank == readTerminalBuffer(<<L_blank, L_blank, L_blank, L_blank>>)
ScreenReading == readTerminalBuffer(<<L_reading, L_gt, L_blank, L_blank>>)
ScreenTry  == readTerminalBuffer(<<L_try, L_blank, L_blank, L_blank>>)

\* ------------------------------------------------------ worker helpers
bridgeVars == <<hubVars, wsVars, dashVars, reqVars, msgVars>>

\* config.maxLogEntries (500 by default, 3 here)
maxLogEntries == 3

addLog_Unbounded(log, type, content) ==
  Append(log, [type |-> type, content |-> content])

\* addLog: push the entry, keep the last maxLogEntries
addLog(log, type, content) ==
  LET pushed == Append(log, [type |-> type, content |-> content])
  IN IF Len(pushed) > maxLogEntries
       THEN SubSeq(pushed, Len(pushed) - maxLogEntries + 1, Len(pushed))
       ELSE pushed

\* state.currentTask = text.substring(0, 120); every text of Texts is shorter
substring120(text) == text

\* What `tmux has-session -t <session> 2>&1` run by execSync does: it exits 0
\* and prints nothing when the session exists; otherwise it prints a message
\* and exits 1, or is killed at the timeout, and execSync throws.
HasSession(w) ==
  IF session[w]
    THEN { [threw |-> FALSE, stdout |-> ""], [threw |-> TRUE, stdout |-> ""] }
    ELSE { [threw |-> TRUE, stdout |-> "can't find session"],
           [threw |-> TRUE, stdout |-> "no server running"] }

\* every outcome of that command
HasSessionRuns ==
  { [threw |-> FALSE, stdout |-> ""], [threw |-> TRUE, stdout |-> ""],
    [threw |-> TRUE, stdout |-> "can't find session"],
    [threw |-> TRUE, stdout |-> "no server running"] }

\* execSafe(cmd): the command's stdout, "" when execSync throws
execSafe(run) == IF run.threw THEN "" ELSE run.stdout

\* result.includes("no ")
includesNo(result) == result = "no server running"

\* isSessionAlive()
isSessionAlive(run) == ~includesNo(execSafe(run))

\* What `tmux capture-pane` gives through execSafe: text when the session
\* exists, "" when it does not or when the command fails
CapturePane(w) == IF session[w] THEN {"text", ""} ELSE {""}

\* -------------------------------------------------- screen differencing
ScreenUnchanged_Never(w, screenText) == FALSE

\* screenText === this.lastScreenText
ScreenUnchanged(w, screenText) == screenText = lastScreenText[w]

ScrolledSuffix_Untrimmed(newJoined, oldJoined) == slice(newJoined, Len(oldJoined))

\* newJoined.slice(oldJoined.length).trim()
ScrolledSuffix(newJoined, oldJoined) == trim(slice(newJoined, Len(oldJoined)))

NewContent_Whole(last, screenText) == joined(screenText)

\* the newContent captureOutput computes from the stored and the new screen
NewContent(last, screenText) ==
  IF last = <<>>
    THEN joined(screenText)
    ELSE LET oldJoined == joined(last)
             newJoined == joined(screenText)
         IN IF startsWith(newJoined, oldJoined)
              THEN ScrolledSuffix(newJoined, oldJoined)
              ELSE newJoined

\* ---------------------------------------------------------- classifier
ToolNames ==
  { <<"R","e","a","d">>, <<"B","a","s","h">>, <<"E","d","i","t">>,
    <<"W","r","i","t","e">>, <<"G","r","e","p">>, <<"G","l","o","b">>,
    <<"T","a","s","k">> }

\* /\b(Read|Bash|Edit|Write|Grep|Glob|Task)\b/.test(s)
matchToolName(s) ==
  \E t \in ToolNames :
    \E i \in 1..(Len(s) - Len(t) + 1) :
      /\ SubSeq(s, i, i + Len(t) - 1) = t
      /\ (i = 1 \/ s[i - 1] \notin WordChars)
      /\ (i + Len(t) - 1 = Len(s) \/ s[i + Len(t)] \notin WordChars)

\* trimmed.match(/^>\s*$/)
matchBarePrompt(s) ==
  /\ s # <<>>
  /\ s[1] = ">"
  /\ \A i \in 2..Len(s) : s[i] \in WhiteSpace

\* lines.slice(-10)
tailOf(lines) ==
  SubSeq(lines, IF Len(lines) > TailLines THEN Len(lines) - TailLines + 1 ELSE 1, Len(lines))

hasPrompt_Always(tail) == TRUE

hasPrompt(tail) ==
  \E i \in 1..Len(tail) :
    LET trimmed == trim(tail[i])
    IN includes(trimmed, <<Glyph>>) \/ matchBarePrompt(trimmed)

hasToolActivity_Never(tail) == FALSE

hasToolActivity(tail) ==
  \E i \in 1..Len(tail) :
    LET trimmed == trim(tail[i])
    IN matchToolName(trimmed) /\ ~includes(trimmed, <<"T", "r", "y", " ">>)

MayTurnIdle_Always(st) == st # "idle"

\* this.state.status !== "idle" && this.state.status !== "interrupted"
MayTurnIdle(st) == st # "idle" /\ st # "interrupted"

\* detectStatus(cleanOutput): the status it leaves, given the status st
detectStatus(st, cleanOutput) ==
  LET lines == nonBlank(split(cleanOutput))
      tail == tailOf(lines)
  IN IF lines = <<>> THEN st
     ELSE IF hasPrompt(tail) /\ ~hasToolActivity(tail)
       THEN (IF MayTurnIdle(st) THEN "idle" ELSE st)
     ELSE IF hasToolActivity(tail) /\ st = "idle" THEN "working"
     ELSE st

\* ------------------------------------------------------ worker actions

\* start() up to its first await: status "starting", kill-session, sleep(200)
StartBegin(w) ==
  /\ ops < MaxOps
  /\ ops' = ops + 1
  /\ status' = [status EXCEPT ![w] = "starting"]
  /\ lastError' = [lastError EXCEPT ![w] = "null"]
  /\ stateEvents' = [stateEvents EXCEPT ![w] = @ + 1]
  /\ session' = [session EXCEPT ![w] = FALSE]
  /\ startCalls' = [startCalls EXCEPT ![w].pre = @ + 1]
  /\ UNCHANGED <<currentTask, outputLog, pollTimer, lastScreenText, writing, logEvents>>
  /\ halted' = [halted EXCEPT ![w] = FALSE]
  /\ UNCHANGED <<bridgeVars, lastTick>>

\* Outcomes of the two execSync calls of start(): new-session fails when the
\* session exists already, and either call may fail or time out.
LaunchOutcomes(w) ==
  IF session[w] THEN {"new-session throws"}
  ELSE {"launched", "new-session throws", "send-keys throws"}

\* start() from sleep(200) to sleep(2000): new-session, send-keys, two log
\* entries, startPolling(); or the catch branch
StartLaunch(w, outcome) ==
  /\ startCalls[w].pre > 0
  /\ outcome \in LaunchOutcomes(w)
  /\ session' = [session EXCEPT ![w] = IF outcome = "new-session throws" THEN @ ELSE TRUE]
  /\ IF outcome = "launched"
       THEN /\ outputLog' = [outputLog EXCEPT ![w] =
                 addLog(addLog(@, "system", <<"Started tmux session">>),
                        "system", <<"Launching">>)]
            /\ logEvents' = [logEvents EXCEPT ![w] = @ + 2]
            /\ pollTimer' = [pollTimer EXCEPT ![w] = "set"]
            /\ startCalls' = [startCalls EXCEPT ![w] = [pre |-> @.pre - 1, post |-> @.post + 1]]
            /\ UNCHANGED <<status, lastError, stateEvents>>
       ELSE /\ status' = [status EXCEPT ![w] = "error"]
            /\ lastError' = [lastError EXCEPT ![w] = outcome]
            /\ outputLog' = [outputLog EXCEPT ![w] = addLog(@, "error", <<"Failed to start">>)]
            /\ logEvents' = [logEvents EXCEPT ![w] = @ + 1]
            /\ stateEvents' = [stateEvents EXCEPT ![w] = @ + 1]
            /\ startCalls' = [startCalls EXCEPT ![w].pre = @ - 1]
            /\ UNCHANGED pollTimer
  /\ UNCHANGED <<currentTask, lastScreenText, writing, ops>>
  /\ UNCHANGED <<bridgeVars, lastTick, halted>>

\* start() after sleep(2000): isSessionAlive() decides "working" or "error"
StartConfirm(w, run) ==
  /\ startCalls[w].post > 0
  /\ run \in HasSession(w)
  /\ startCalls' = [startCalls EXCEPT ![w].post = @ - 1]
  /\ IF isSessionAlive(run)
       THEN /\ status' = [status EXCEPT ![w] = "working"]
            /\ outputLog' = [outputLog EXCEPT ![w] =
                 addLog(@, "system", <<"Claude Code CLI starting...">>)]
            /\ UNCHANGED lastError
       ELSE /\ status' = [status EXCEPT ![w] = "error"]
            /\ lastError' = [lastError EXCEPT ![w] = "tmux session died immediately"]
            /\ outputLog' = [outputLog EXCEPT ![w] =
                 addLog(@, "error", <<"tmux session died immediately after start">>)]
  /\ logEvents' = [logEvents EXCEPT ![w] = @ + 1]
  /\ stateEvents' = [stateEvents EXCEPT ![w] = @ + 1]
  /\ UNCHANGED <<currentTask, pollTimer, lastScreenText, writing, session, ops>>
  /\ UNCHANGED <<bridgeVars, lastTick, halted>>

StatusAfterSend_Early(st, delivered) == "working"

\* this.state.status = "working", the last statement of sendMessage's try
\* block: reached only when no tmux command threw
StatusAfterSend(st, delivered) == IF delivered THEN "working" ELSE st

\* sendMessage(text); delivered says whether the tmux commands succeeded
\* (they cannot when the session does not exist)
sendMessage(w, text, delivered) ==
  /\ ops < MaxOps
  /\ delivered => session[w]
  /\ ops' = ops + 1
  /\ currentTask' = [currentTask EXCEPT ![w] = substring120(text)]
  /\ IF delivered
       THEN /\ outputLog' = [outputLog EXCEPT ![w] = addLog(@, "user", <<text>>)]
            /\ logEvents' = [logEvents EXCEPT ![w] = @ + 1]
            /\ UNCHANGED lastError
       ELSE /\ outputLog' = [outputLog EXCEPT ![w] =
                 addLog(addLog(@, "user", <<text>>), "error", <<"Failed to send message">>)]
            /\ logEvents' = [logEvents EXCEPT ![w] = @ + 2]
            /\ lastError' = [lastError EXCEPT ![w] = "send-keys throws"]
  /\ status' = [status EXCEPT ![w] = StatusAfterSend(@, delivered)]
  /\ stateEvents' = [stateEvents EXCEPT ![w] = @ + 1]
  /\ UNCHANGED <<pollTimer, lastScreenText, writing, startCalls, session>>
  /\ UNCHANGED <<bridgeVars, lastTick, halted>>

\* interrupt(); delivered says whether `tmux send-keys Escape` succeeded
interrupt(w, delivered) ==
  /\ ops < MaxOps
  /\ delivered => session[w]
  /\ ops' = ops + 1
  /\ IF delivered
       THEN /\ status' = [status EXCEPT ![w] = "interrupted"]
            /\ currentTask' = [currentTask EXCEPT ![w] = "null"]
            /\ outputLog' = [outputLog EXCEPT ![w] =
                 addLog(@, "system", <<"Interrupted (sent Escape)">>)]
            /\ stateEvents' = [stateEvents EXCEPT ![w] = @ + 1]
       ELSE /\ outputLog' = [outputLog EXCEPT ![w] =
                 addLog(@, "error", <<"Failed to interrupt">>)]
            /\ UNCHANGED <<status, currentTask, stateEvents>>
  /\ logEvents' = [logEvents EXCEPT ![w] = @ + 1]
  /\ UNCHANGED <<lastError, pollTimer, lastScreenText, writing, startCalls, session>>
  /\ UNCHANGED <<bridgeVars, lastTick, halted>>

\* shutdown(): stopPolling(), kill-session, one log entry
shutdown(w) ==
  /\ ops < MaxOps
  /\ ops' = ops + 1
  /\ pollTimer' = [pollTimer EXCEPT ![w] = "null"]
  /\ session' = [session EXCEPT ![w] = FALSE]
  /\ outputLog' = [outputLog EXCEPT ![w] = addLog(@, "system", <<"tmux session killed">>)]
  /\ logEvents' = [logEvents EXCEPT ![w] = @ + 1]
  /\ UNCHANGED <<status, currentTask, lastError, lastScreenText, writing, startCalls,
                 stateEvents>>
  /\ halted' = [halted EXCEPT ![w] = TRUE]
  /\ UNCHANGED <<bridgeVars, lastTick>>

\* The tmux session ends by itself (the process in it exits).
SessionEnds(w) ==
  /\ session[w]
  /\ session' = [session EXCEPT ![w] = FALSE]
  /\ UNCHANGED <<status, currentTask, lastError, outputLog, pollTimer, lastScreenText,
                 writing, startCalls, logEvents, stateEvents, ops>>
  /\ UNCHANGED <<bridgeVars, lastTick, halted>>

TickMayBegin_Always(w) == TRUE

\* Whether the interval timer's callback can run now.  terminal.write(raw,
\* resolve) parses on a timer of no delay that the tick arms, and calls
\* resolve in that timer's turn; the interval comes due again
\* POLL_INTERVAL_MS after the tick began.  Timers run in the order in which
\* they come due, so the rest of a tick runs before the next tick begins.
TickMayBegin(w) == writing[w] = 0

\* captureOutput() up to its await, run by the interval timer: capture-pane;
\* an empty snapshot ends the tick (status "error" and stopPolling() when the
\* session is reported gone), another is written to the reset terminal.
CaptureBegin(w, raw, run) ==
  /\ pollTimer[w] = "set"
  /\ TickMayBegin(w)
  /\ ops < MaxOps
  /\ raw \in CapturePane(w)
  /\ run \in HasSession(w)
  /\ ops' = ops + 1
  /\ lastTick' = IF raw = "" THEN [lastTick EXCEPT ![w] = "empty"] ELSE lastTick
  /\ IF raw = ""
       THEN IF ~isSessionAlive(run)
              THEN /\ status' = [status EXCEPT ![w] = "error"]
                   /\ lastError' = [lastError EXCEPT ![w] = "tmux session ended"]
                   /\ pollTimer' = [pollTimer EXCEPT ![w] = "null"]
                   /\ outputLog' = [outputLog EXCEPT ![w] =
                        addLog(@, "system", <<"tmux session ended">>)]
                   /\ logEvents' = [logEvents EXCEPT ![w] = @ + 1]
                   /\ stateEvents' = [stateEvents EXCEPT ![w] = @ + 1]
                   /\ UNCHANGED writing
              ELSE UNCHANGED <<status, lastError, pollTimer, outputLog, logEvents,
                               stateEvents, writing>>
       ELSE /\ writing' = [writing EXCEPT ![w] = @ + 1]
            /\ UNCHANGED <<status, lastError, pollTimer, outputLog, logEvents, stateEvents>>
  /\ UNCHANGED <<currentTask, lastScreenText, startCalls, session>>
  /\ UNCHANGED <<bridgeVars, halted>>

StoreScreen_Shared(w, screenText) == [v \in Workers |-> screenText]

\* this.lastScreenText = screenText: a field of this Worker
StoreScreen(w, screenText) == [lastScreenText EXCEPT ![w] = screenText]

\* captureOutput() after terminal.write's callback: read the screen, compare
\* with the stored one, diff, store, log, classify.
CaptureRendered(w, screenText) ==
  /\ writing[w] > 0
  /\ writing' = [writing EXCEPT ![w] = @ - 1]
  /\ lastTick' = [lastTick EXCEPT ![w] =
       IF ScreenUnchanged(w, screenText) THEN "same" ELSE "changed"]
  /\ IF ScreenUnchanged(w, screenText)
       THEN UNCHANGED <<status, currentTask, outputLog, lastScreenText, logEvents,
                        stateEvents>>
       ELSE LET newContent == NewContent(lastScreenText[w], screenText)
                st == detectStatus(status[w], screenText)
            IN /\ lastScreenText' = StoreScreen(w, screenText)
               /\ outputLog' = [outputLog EXCEPT ![w] =
                    IF newContent # <<>> THEN addLog(@, "output", newContent) ELSE @]
               /\ logEvents' = [logEvents EXCEPT ![w] =
                    IF newContent # <<>> THEN @ + 1 ELSE @]
               /\ status' = [status EXCEPT ![w] = st]
               /\ currentTask' = [currentTask EXCEPT ![w] =
                    IF st = "idle" /\ status[w] # "idle" THEN "null" ELSE @]
               /\ stateEvents' = [stateEvents EXCEPT ![w] =
                    IF st # status[w] THEN @ + 1 ELSE @]
  /\ UNCHANGED <<lastError, pollTimer, startCalls, session, ops>>
  /\ UNCHANGED <<bridgeVars, halted>>

\* The operations of the sessions ws of the manager
SessionNext(ws) ==
  \/ \E w \in ws : StartBegin(w)
  \/ \E w \in ws, outcome \in {"launched", "new-session throws", "send-keys throws"} :
       StartLaunch(w, outcome)
  \/ \E w \in ws, run \in HasSessionRuns : StartConfirm(w, run)
  \/ \E w \in ws, text \in Texts, delivered \in BOOLEAN : sendMessage(w, text, delivered)
  \/ \E w \in ws, delivered \in BOOLEAN : interrupt(w, delivered)
  \/ \E w \in ws : shutdown(w)
  \/ \E w \in ws : SessionEnds(w)
  \/ \E w \in ws, raw \in {"text", ""}, run \in HasSessionRuns :
       CaptureBegin(w, raw, run)
  \/ \E w \in ws, screenText \in Screens : CaptureRendered(w, screenText)

\* One session alone
Solo == {"shiro"}

WorkerNext == SessionNext(Solo)

WorkerSpec == Init /\ [][WorkerNext]_vars

\* All sessions of the manager side by side
FleetNext == SessionNext(Workers)

FleetSpec == Init /\ [][FleetNext]_vars

\* ----------------------------------------------------------------- claims

\* Ids of the eval commands that were put on socket c
RoutedTo(c) == {sent[c][j] : j \in 1..Len(sent[c])}

\* Position of id x in a sequence that holds it
Pos(seq, x) == CHOOSE i \in 1..Len(seq) : seq[i] = x

\* C1: a REST request for a page with no registered socket in OPEN state is
\* answered 503 at once: nothing is sent on any socket, and the pending map,
\* the timers and the handles are as before the call.
C1_NoSuchEndpoint ==
  [][\A page \in Pages, kind \in Kinds :
       (nextId' # nextId /\ ~CanSend(page) /\ RestRequest(page, kind)) =>
          /\ response'[nextId] = 503
          /\ sent' = sent
          /\ pendingEvals' = pendingEvals
          /\ timers' = timers
          /\ handle' = handle]_vars

C1_Witness ==
  \E id \in Ids : response[id] = 503 /\ handle[id].state = "none"

\* C2: a result message for a request that is still pending (its timeout has
\* not fired) resolves the caller's handle with exactly the message's result
\* and error fields, cancels the timeout and removes the id from the pending
\* map; the caller is answered with the result.
C2_ResultResolves ==
  [][\A c \in Conns, id \in Ids, p \in Payloads :
       (id \in pendingEvals /\ id \in timers /\ msgCount' # msgCount
          /\ SkyeyesResult(c, id, p)) =>
          /\ handle'[id].state = "resolved"
          /\ handle'[id].result = p.result
          /\ handle'[id].error = p.error
          /\ id \notin timers'
          /\ id \notin pendingEvals'
          /\ response'[id] = 200]_vars

C2_Witness ==
  \E id \in Ids :
    /\ handle[id].state = "resolved"
    /\ handle[id].error = "boom"
    /\ response[id] = 200
    /\ id \notin pendingEvals

\* C3: every pending request is terminated exactly once: the resolve/reject
\* functions of its promise are called at most once in all, its id is in the
\* pending map exactly while the handle is unsettled, and once the handle is
\* settled the id never is in the pending map again.
C3_TerminatedOnce ==
  /\ [](\A id \in Ids :
          /\ settleCalls[id] <= 1
          /\ (id \in pendingEvals <=> handle[id].state = "pending")
          /\ (handle[id].state \in {"resolved", "rejected"} <=> settleCalls[id] = 1))
  /\ [][\A id \in Ids :
          handle[id].state \in {"resolved", "rejected"} =>
            /\ handle'[id] = handle[id]
            /\ id \notin pendingEvals']_vars

C3_Witness ==
  \E i, j \in Ids :
    /\ handle[i].state = "resolved"
    /\ handle[j].state = "rejected"
    /\ settleCalls[i] = 1
    /\ settleCalls[j] = 1

\* C4 as stated: handling a result message a second time changes nothing that
\* can be observed: not the hub's maps, not the caller's handle and answer,
\* and not what the dashboard clients are sent.
C4_Original ==
  [][\A c \in Conns, id \in Ids, p \in Payloads :
       (msgCount' # msgCount /\ AlreadyDelivered(c, id, p) /\ SkyeyesResult(c, id, p)) =>
          /\ UNCHANGED <<hubVars, handle, settleCalls, response, sent>>
          /\ dashInbox' = dashInbox]_vars

\* C4 as amended: handling a result message a second time leaves the hub's
\* maps, the caller's handle and the caller's answer as they are, and the
\* message is broadcast to the open dashboard clients once more.
C4_Amended ==
  [][\A c \in Conns, id \in Ids, p \in Payloads :
       (msgCount' # msgCount /\ AlreadyDelivered(c, id, p) /\ SkyeyesResult(c, id, p)) =>
          /\ UNCHANGED <<hubVars, handle, settleCalls, response, sent>>
          /\ dashInbox' = broadcast(ResultMsg(connPage[c], id, p))]_vars

C4_Witness ==
  \E id \in Ids, d \in Dash :
    /\ id \in redelivered
    /\ dashInbox[d].n = 2
    /\ dashInbox[d].last.id = id
    /\ settleCalls[id] = 1

\* C5: when a socket connects on /skyeyes for a page that already has a
\* registered socket, the map holds the new socket, the old one is no longer
\* OPEN (the hub's close(4000, "replaced") closed it if it still was); and at
\* all times every OPEN bridge socket is the one registered under its page,
\* so no page has two live sockets.
C5_Replacement ==
  /\ [](\A c \in Conns :
          readyState[c] = "OPEN" => skyeyesBridges[connPage[c]] = c)
  /\ [][\A c \in Conns, page \in Pages :
          (readyState[c] = "NONE" /\ readyState'[c] # "NONE"
             /\ skyeyesBridges[page] # NoConn /\ ConnectSkyeyes(c, page)) =>
             /\ skyeyesBridges'[page] = c
             /\ readyState'[c] = "OPEN"
             /\ readyState'[skyeyesBridges[page]] # "OPEN"
             /\ (readyState[skyeyesBridges[page]] = "OPEN"
                   => closeBy'[skyeyesBridges[page]] = "replaced")]_vars

C5_Witness ==
  \E a, b \in Conns :
    /\ a # b
    /\ connPage[a] = connPage[b]
    /\ closeBy[a] = "replaced"
    /\ skyeyesBridges[connPage[a]] = b
    /\ readyState[b] = "OPEN"

\* C6: a registered socket that the previous sweep pinged and that has sent
\* no pong since is terminated by the next sweep and removed from the map,
\* whatever its readyState, and the status no longer lists its page.
C6_DeadEvicted ==
  [][HeartbeatSweep =>
       \A k \in Pages :
         (skyeyesBridges[k] # NoConn /\ skyeyesBridges[k] \in pingOutstanding) =>
            /\ skyeyesBridges'[k] = NoConn
            /\ readyState'[skyeyesBridges[k]] \in {"CLOSING", "CLOSED"}
            /\ closeBy'[skyeyesBridges[k]] = "terminated"
            /\ k \notin DOMAIN getSkyeyesStatus']_vars

C6_Witness ==
  \E c \in Conns :
    /\ closeBy[c] = "terminated"
    /\ skyeyesBridges[connPage[c]] = NoConn

\* C7 as stated: when the sweep evicts a socket, every pending request that
\* was routed to it is rejected at that sweep and leaves the pending map.
C7_Original ==
  [][HeartbeatSweep =>
       \A k \in DeadPages, id \in pendingEvals :
         id \in RoutedTo(skyeyesBridges[k]) =>
            /\ handle'[id].state = "rejected"
            /\ id \notin pendingEvals']_vars

\* C8: when the timeout of a pending request fires, its handle is rejected
\* with the timeout error (answered 504) and only its own entry leaves the
\* pending map; the bridge sockets stay registered and in their state, every
\* other request is untouched; and a result message that arrives for a
\* request that timed out resolves nothing.
C8_TimeoutFrame ==
  /\ [][\A id \in Ids :
          (id \in timers /\ id \notin timers' /\ TimeoutFire(id)) =>
             /\ handle'[id].state = "rejected"
             /\ handle'[id].error = TimeoutMessage
             /\ response'[id] = 504
             /\ pendingEvals' = pendingEvals \ {id}
             /\ skyeyesBridges' = skyeyesBridges
             /\ readyState' = readyState
             /\ \A j \in Ids \ {id} :
                  /\ handle'[j] = handle[j]
                  /\ response'[j] = response[j]
                  /\ (j \in timers' <=> j \in timers)]_vars
  /\ [][\A c \in Conns, id \in Ids, p \in Payloads :
          (handle[id].state = "rejected" /\ msgCount' # msgCount
             /\ SkyeyesResult(c, id, p)) =>
             UNCHANGED <<hubVars, handle, settleCalls, response>>]_vars

C8_Witness ==
  \E i, j \in Ids, d \in Dash :
    /\ handle[i].state = "rejected"
    /\ response[i] = 504
    /\ dashInbox[d].last.type = "skyeyes_result"
    /\ dashInbox[d].last.id = i
    /\ j \in pendingEvals
    /\ reqPage[j] = reqPage[i]
    /\ CanSend(reqPage[i])

\* C9 as stated: when a new socket takes over a page, every pending request
\* that was routed to the superseded socket is failed at once.
C9_Original ==
  [][\A c \in Conns, page \in Pages :
       (readyState[c] = "NONE" /\ readyState'[c] # "NONE"
          /\ skyeyesBridges[page] # NoConn /\ ConnectSkyeyes(c, page)) =>
          \A id \in pendingEvals :
            id \in RoutedTo(skyeyesBridges[page]) =>
               /\ handle'[id].state = "rejected"
               /\ id \notin pendingEvals']_vars

\* C10: on every bridge socket the eval commands lie in the order in which
\* sendToSkyeyes was called for its page, whoever called (REST or dashboard).
C10_SendOrder ==
  \A c \in Conns :
    \A i, j \in 1..Len(sent[c]) :
      i < j =>
        /\ \E m \in 1..Len(calls[connPage[c]]) : calls[connPage[c]][m] = sent[c][i]
        /\ \E m \in 1..Len(calls[connPage[c]]) : calls[connPage[c]][m] = sent[c][j]
        /\ Pos(calls[connPage[c]], sent[c][i]) < Pos(calls[connPage[c]], sent[c][j])

C10_Witness ==
  \E c \in Conns :
    /\ Len(sent[c]) = 2
    /\ reqKind[sent[c][1]] = "dash"
    /\ reqKind[sent[c][2]] = "exec"

\* C11: the failure answer tells "never reached the endpoint" from "may have
\* run": a request answered 503 has no eval command on any socket, and a
\* request answered 504 has its eval command on some socket.
C11_FailureOutcome ==
  \A id \in Ids :
    /\ response[id] = 503 => \A c \in Conns : id \notin RoutedTo(c)
    /\ response[id] = 504 => \E c \in Conns : id \in RoutedTo(c)

C11_Witness ==
  \E i, j \in Ids :
    /\ response[i] = 503
    /\ response[j] = 504
    /\ reqPage[i] = reqPage[j]

\* C12: a skyeyes_console message handled on a socket that registered as
\* page k is sent, tagged with k, to every dashboard client that is in the
\* broadcast set and OPEN, to no other client, and the pending map, the
\* timers and the handles are as before.
C12_ConsoleBroadcast ==
  [][\A c \in Conns, level \in Levels :
       (msgCount' # msgCount /\ SkyeyesConsole(c, level)) =>
          /\ \A d \in Dash :
               IF d \in dashboardClients /\ dashState[d] = "OPEN"
                 THEN /\ dashInbox'[d].n = dashInbox[d].n + 1
                      /\ dashInbox'[d].last.type = "skyeyes_console"
                      /\ dashInbox'[d].last.page = connPage[c]
                      /\ dashInbox'[d].last.level = level
                 ELSE dashInbox'[d] = dashInbox[d]
          /\ pendingEvals' = pendingEvals
          /\ timers' = timers
          /\ handle' = handle]_vars

C12_Witness ==
  \E d \in Dash, c \in Conns, id \in Ids :
    /\ dashInbox[d].last.type = "skyeyes_console"
    /\ dashInbox[d].last.page = connPage[c]
    /\ connPage[c] # NoPage
    /\ id \in pendingEvals

\* C13: the close of a dashboard socket takes it out of the broadcast set
\* and leaves the pending map, the timers, the handles and the bridge map as
\* they are; and at all times every pending request has its timeout armed,
\* so a request pending at that moment still ends by a result message or by
\* its timeout.
C13_DashCloseFrame ==
  /\ [](\A id \in pendingEvals : id \in timers /\ handle[id].state = "pending")
  /\ [][\A d \in Dash :
          (dashState'[d] = "CLOSED" /\ dashState[d] # "CLOSED" /\ DashClose(d)) =>
             /\ d \notin dashboardClients'
             /\ pendingEvals' = pendingEvals
             /\ timers' = timers
             /\ handle' = handle
             /\ skyeyesBridges' = skyeyesBridges]_vars

C13_Witness ==
  \E d \in Dash, id \in Ids :
    /\ dashState[d] = "CLOSED"
    /\ d \notin dashboardClients
    /\ id \in pendingEvals
    /\ id \in timers

\* Last entry of a worker's output log
LastLog(log) == log[Len(log)]

\* C14: on a capture tick whose screen differs from the stored, non-empty
\* screen, the log content emitted is the part of the new non-blank text
\* after the old non-blank text (without the surrounding white space) when
\* the new text is the old text followed by something, and the whole new
\* non-blank text otherwise; nothing is logged when that content is empty.
\* After a,b,c the screen a,b,c,d emits d; the screen x,y emits x,y.
C14_ScreenDiff ==
  [][\A w \in Workers, s \in Screens :
       (writing'[w] < writing[w] /\ lastScreenText[w] # <<>> /\ s # lastScreenText[w]
          /\ CaptureRendered(w, s)) =>
          LET old == joined(lastScreenText[w])
              new == joined(s)
              rest == {n \in 0..Len(new) : new = old \o SubSeq(new, n + 1, Len(new))}
              expected == IF rest # {}
                            THEN trim(SubSeq(new, (CHOOSE n \in rest : TRUE) + 1, Len(new)))
                            ELSE new
          IN /\ IF expected = <<>>
                  THEN outputLog'[w] = outputLog[w] /\ logEvents'[w] = logEvents[w]
                  ELSE /\ LastLog(outputLog'[w]) = [type |-> "output", content |-> expected]
                       /\ logEvents'[w] = logEvents[w] + 1
             /\ (lastScreenText[w] = ScreenABC /\ s = ScreenABCD)
                   => LastLog(outputLog'[w]).content = <<"d">>
             /\ (lastScreenText[w] = ScreenABC /\ s = ScreenXY)
                   => LastLog(outputLog'[w]).content = <<"x", NL, "y">>]_vars

C14_Witness ==
  \E w \in Workers :
    /\ lastTick[w] = "changed"
    /\ lastScreenText[w] = ScreenABCD
    /\ Len(outputLog[w]) >= 2
    /\ LastLog(outputLog[w]) = [type |-> "output", content |-> <<"d">>]
    /\ outputLog[w][Len(outputLog[w]) - 1] =
         [type |-> "output", content |-> <<"a", NL, "b", NL, "c">>]

\* C15: a capture tick whose screen equals the stored screen emits no log
\* entry and no state change, and leaves the stored screen, the status, the
\* current task and the log as they are.
C15_SameScreen ==
  [][\A w \in Workers, s \in Screens :
       (writing'[w] < writing[w] /\ s = lastScreenText[w] /\ CaptureRendered(w, s)) =>
          /\ logEvents' = logEvents
          /\ stateEvents' = stateEvents
          /\ lastScreenText' = lastScreenText
          /\ status' = status
          /\ currentTask' = currentTask
          /\ outputLog' = outputLog]_vars

\* the latest tick read the screen that an earlier tick stored, a prompt
\* screen, while the status was one the classifier would have turned to idle
C15_Witness ==
  \E w \in Workers :
    /\ lastTick[w] = "same"
    /\ hasPrompt(tailOf(nonBlank(split(lastScreenText[w]))))
    /\ ~hasToolActivity(tailOf(nonBlank(split(lastScreenText[w]))))
    /\ status[w] = "working"

\* The tail the classifier looks at in a screen text
TailOfScreen(s) == tailOf(nonBlank(split(s)))

\* A line of the tail holds a tool name as a word
HasToolToken(tail) ==
  \E i \in 1..Len(tail) : matchToolName(trim(tail[i]))

\* A line of the tail holds a tool name as a word and does not hold "Try "
HasCountedToolToken(tail) ==
  \E i \in 1..Len(tail) :
    /\ matchToolName(trim(tail[i]))
    /\ ~includes(trim(tail[i]), <<"T", "r", "y", " ">>)

\* C16 as stated, for a tick that reads a changed screen while the session
\* is not interrupted: a prompt marker and no tool-name token in the tail
\* make the session idle; a tool-name token in the tail makes an idle or
\* working session working, and whatever the status the tick does not leave
\* the session idle.
C16_Original ==
  [][\A w \in Workers, s \in Screens :
       (writing'[w] < writing[w] /\ s # lastScreenText[w] /\ status[w] # "interrupted"
          /\ CaptureRendered(w, s)) =>
          /\ (hasPrompt(TailOfScreen(s)) /\ ~HasToolToken(TailOfScreen(s)))
                => status'[w] = "idle"
          /\ HasToolToken(TailOfScreen(s)) =>
                /\ status'[w] # "idle"
                /\ status[w] \in {"idle", "working"} => status'[w] = "working"]_vars

\* C16 as amended: the same with "tool-name token" read as a tool name on a
\* line that does not hold "Try "; a tail with a prompt marker whose only
\* tool names are on such lines makes the session idle.
C16_Amended ==
  [][\A w \in Workers, s \in Screens :
       (writing'[w] < writing[w] /\ s # lastScreenText[w] /\ status[w] # "interrupted"
          /\ CaptureRendered(w, s)) =>
          /\ (hasPrompt(TailOfScreen(s)) /\ ~HasCountedToolToken(TailOfScreen(s)))
                => status'[w] = "idle"
          /\ HasCountedToolToken(TailOfScreen(s)) =>
                /\ status'[w] # "idle"
                /\ status[w] \in {"idle", "working"} => status'[w] = "working"
                /\ status[w] \notin {"idle", "working"} => status'[w] = status[w]]_vars

\* a tick read a screen with a tool name and a prompt and left the session
\* working; start() has not yet set a status and nothing was sent, so the
\* classifier did
C16_Witness ==
  \E w \in Workers :
    /\ lastTick[w] = "changed"
    /\ hasPrompt(TailOfScreen(lastScreenText[w]))
    /\ HasCountedToolToken(TailOfScreen(lastScreenText[w]))
    /\ status[w] = "working"
    /\ startCalls[w].post = 1
    /\ currentTask[w] = "null"

\* C17 as stated: a tick that reads the tail "Reading file...", "> " while
\* the session is working or idle leaves it working.
C17_Original ==
  [][\A w \in Workers :
       (writing'[w] < writing[w] /\ ScreenReading # lastScreenText[w]
          /\ status[w] \in {"idle", "working"} /\ CaptureRendered(w, ScreenReading)) =>
          status'[w] = "working"]_vars

StartStep(w) ==
  \/ StartBegin(w)
  \/ \E outcome \in LaunchOutcomes(w) : StartLaunch(w, outcome)
  \/ \E run \in HasSessionRuns : StartConfirm(w, run)

\* C19 as stated: while the status is error the capture loop is stopped (no
\* poll timer, so no tick runs), and the status leaves error only by start().
C19_Original ==
  /\ [](\A w \in Workers : status[w] = "error" => pollTimer[w] = "null")
  /\ [][\A w \in Workers :
          (status[w] = "error" /\ status'[w] # "error") => StartStep(w)]_vars

\* C20 as stated: every change of status is a transition of the state
\* machine: a tick takes working to idle or idle to working and nothing
\* else (never starting to idle); start() confirmed alive gives working;
\* an interrupt gives interrupted; any status may become error; a delivered
\* send gives working and a restart gives starting.
C20_Original ==
  [][\A w \in Workers :
       status'[w] # status[w] =>
          \/ /\ \E s \in Screens : CaptureRendered(w, s)
             /\ <<status[w], status'[w]>> \in {<<"working", "idle">>, <<"idle", "working">>}
          \/ /\ status'[w] = "working"
             /\ \/ \E run \in HasSessionRuns : StartConfirm(w, run)
                \/ \E text \in Texts : sendMessage(w, text, TRUE)
          \/ status'[w] = "interrupted" /\ interrupt(w, TRUE)
          \/ status'[w] = "error"
          \/ status'[w] = "starting" /\ StartBegin(w)]_vars

\* C23: the hub never sends a request again: over all bridge sockets, each
\* request id lies in at most one eval command ever sent, also after the
\* request timed out and after its socket was evicted, closed or replaced.
C23_NoRetry ==
  \A c1, c2 \in Conns :
    \A i \in 1..Len(sent[c1]) :
      \A j \in 1..Len(sent[c2]) :
        sent[c1][i] = sent[c2][j] => (c1 = c2 /\ i = j)

C23_Witness ==
  \E a, b \in Conns, id \in Ids :
    /\ a # b
    /\ id \in RoutedTo(a)
    /\ id \notin RoutedTo(b)
    /\ response[id] = 504
    /\ readyState[a] = "CLOSED"
    /\ connPage[b] = connPage[a]
    /\ skyeyesBridges[connPage[a]] = b
    /\ readyState[b] = "OPEN"

\* C24 as stated: a pending request is resolved only by a result message
\* that arrives on a connection of the endpoint key the request was routed
\* to; the same id in a result from another endpoint's connection resolves
\* nothing.
C24_Original ==
  [][\A c \in Conns, id \in Ids, p \in Payloads :
       (id \in pendingEvals /\ id \notin pendingEvals'
          /\ SkyeyesResult(c, id, p)) =>
          connPage[c] = reqPage[id]]_vars

\* C25 as stated: every request forwarded to a live endpoint, by REST
\* exec/eval, by reload or by a dashboard's skyeyes_exec, has a pending
\* entry with a deadline from the step that forwards it.
C25_Original ==
  [][\A page \in Pages :
       (nextId' # nextId /\ CanSend(page)
          /\ (\/ \E kind \in Kinds : RestRequest(page, kind)
              \/ \E d \in Dash : DashExec(d, page))) =>
          /\ nextId \in pendingEvals'
          /\ nextId \in timers']_vars

\* C25, amended: every request forwarded to a live endpoint by REST
\* exec/eval has a pending entry with a deadline from the step that forwards
\* it; a reload and a dashboard's skyeyes_exec are forwarded without a
\* pending entry and without a deadline.
C25_Amended ==
  /\ [][\A page \in Pages :
          (nextId' # nextId /\ CanSend(page) /\ RestRequest(page, "exec")) =>
             /\ nextId \in RoutedTo(skyeyesBridges[page])'
             /\ nextId \in pendingEvals'
             /\ nextId \in timers']_vars
  /\ [][\A page \in Pages :
          (nextId' # nextId /\ CanSend(page)
             /\ (\/ RestRequest(page, "reload")
                 \/ \E d \in Dash : DashExec(d, page))) =>
             /\ nextId \in RoutedTo(skyeyesBridges[page])'
             /\ pendingEvals' = pendingEvals
             /\ timers' = timers]_vars

C25_Witness ==
  \E c \in Conns, i, j \in Ids :
    /\ reqKind[i] = "exec"
    /\ i \in RoutedTo(c)
    /\ i \in pendingEvals
    /\ i \in timers
    /\ reqKind[j] \in {"reload", "dash"}
    /\ j \in RoutedTo(c)
    /\ j \notin pendingEvals
    /\ j \notin timers

\* C26: a request is failed by no hub event but the timeout of that very
\* request or a heartbeat sweep; the close event of a bridge socket fails
\* and resolves nothing, keeps every deadline, and changes the registry at
\* no key but its own, where it can only unregister.
C26_OnlyEvictionFails ==
  /\ [][\A id \in Ids :
          (handle[id].state = "pending" /\ handle'[id].state = "rejected") =>
             (TimeoutFire(id) \/ HeartbeatSweep)]_vars
  /\ [][\A c \in Conns :
          (readyState[c] # "CLOSED" /\ readyState'[c] = "CLOSED"
             /\ BridgeClose(c)) =>
             /\ UNCHANGED <<pendingEvals, timers, handle, settleCalls, response>>
             /\ \A k \in Pages \ {connPage[c]} :
                  skyeyesBridges'[k] = skyeyesBridges[k]
             /\ skyeyesBridges'[connPage[c]]
                  \in {skyeyesBridges[connPage[c]], NoConn}]_vars

C26_Witness ==
  \E c \in Conns, id \in Ids, k \in Pages :
    /\ readyState[c] = "CLOSED"
    /\ closeBy[c] = "peer"
    /\ skyeyesBridges[connPage[c]] = NoConn
    /\ id \in RoutedTo(c)
    /\ id \in pendingEvals
    /\ handle[id].state = "pending"
    /\ k # connPage[c]
    /\ skyeyesBridges[k] # NoConn

\* C30: the close event of a socket that is no longer the one registered
\* under its page (it was replaced, or evicted and followed by another)
\* leaves the registry as it is: the page keeps its current socket.
C30_StaleClose ==
  [][\A c \in Conns :
       (readyState[c] # "CLOSED" /\ readyState'[c] = "CLOSED"
          /\ skyeyesBridges[connPage[c]] # c /\ BridgeClose(c)) =>
          skyeyesBridges' = skyeyesBridges]_vars

C30_Witness ==
  \E a, b \in Conns :
    /\ a # b
    /\ connPage[a] = connPage[b]
    /\ readyState[a] = "CLOSED"
    /\ closeBy[a] = "replaced"
    /\ skyeyesBridges[connPage[b]] = b
    /\ readyState[b] = "OPEN"

C27_Original ==
  [][\A w \in Workers, run \in HasSessionRuns :
       (ops' # ops /\ CaptureBegin(w, "", run)) =>
          IF session[w]
            THEN UNCHANGED <<status, currentTask, lastError, outputLog,
                             lastScreenText, pollTimer, logEvents, stateEvents>>
            ELSE /\ status'[w] = "error"
                 /\ stateEvents'[w] = stateEvents[w] + 1
                 /\ pollTimer'[w] = "null"]_vars

\* A line of the tail holds the prompt glyph, or is ">" alone
HasPromptMarker(tail) ==
  \E i \in 1..Len(tail) :
    \/ \E j \in 1..Len(tail[i]) : tail[i][j] = Glyph
    \/ trim(tail[i]) = <<">">>

\* C28: a tick that reads a changed screen whose tail holds neither a prompt
\* marker nor a tool name leaves the status and the current task as they
\* are and emits no state change.
C28_NoEvidence ==
  [][\A w \in Workers, s \in Screens :
       (writing'[w] < writing[w] /\ s # lastScreenText[w]
          /\ ~HasPromptMarker(TailOfScreen(s)) /\ ~HasToolToken(TailOfScreen(s))
          /\ CaptureRendered(w, s)) =>
          /\ status'[w] = status[w]
          /\ currentTask'[w] = currentTask[w]
          /\ stateEvents'[w] = stateEvents[w]]_vars

\* a tick stored the screen x,y, which has no prompt and no tool name, and
\* the session is still working on its task
C28_Witness ==
  \E w \in Workers :
    /\ lastTick[w] = "changed"
    /\ lastScreenText[w] = ScreenXY
    /\ status[w] = "working"
    /\ currentTask[w] # "null"

\* C29: every tick that reads a screen different from the stored one stores
\* it and leaves the status the classifier gives for it, also when the new
\* content is empty; it emits a log event exactly when the new content is
\* not empty, and a state change exactly when the status changes.
C29_ChangedTick ==
  [][\A w \in Workers, s \in Screens :
       (writing'[w] < writing[w] /\ s # lastScreenText[w] /\ CaptureRendered(w, s)) =>
          LET tail == TailOfScreen(s)
              old == joined(lastScreenText[w])
              new == joined(s)
              grew == Len(new) >= Len(old) /\ SubSeq(new, 1, Len(old)) = old
              empty == IF lastScreenText[w] # <<>> /\ grew
                         THEN \A i \in (Len(old) + 1)..Len(new) : new[i] \in WhiteSpace
                         ELSE new = <<>>
              toIdle == /\ HasPromptMarker(tail) /\ ~HasCountedToolToken(tail)
                        /\ status[w] \notin {"idle", "interrupted"}
              toWorking == /\ HasCountedToolToken(tail)
                           /\ status[w] = "idle"
          IN /\ lastScreenText'[w] = s
             /\ status'[w] = IF toIdle THEN "idle"
                             ELSE IF toWorking THEN "working" ELSE status[w]
             /\ logEvents'[w] = logEvents[w] + (IF empty THEN 0 ELSE 1)
             /\ empty => outputLog'[w] = outputLog[w]
             /\ stateEvents'[w] =
                  stateEvents[w] + (IF status'[w] # status[w] THEN 1 ELSE 0)]_vars

\* after the screen a,b,c a tick stored the blank screen, whose new content
\* is empty: the last log entry is still the one of a,b,c
C29_Witness ==
  \E w \in Workers :
    /\ lastTick[w] = "changed"
    /\ lastScreenText[w] = ScreenBlank
    /\ LastLog(outputLog[w]) = [type |-> "output", content |-> <<"a", NL, "b", NL, "c">>]

\* C22: an operation on one session (start, send, interrupt, shutdown, the
\* end of its tmux session, either half of a capture tick) leaves the stored
\* screen, the status, the current task and the log of every other session
\* as they are: no step that changes one of these for a session v is an
\* operation on another session w.
C22_SessionFrame ==
  [][\A v \in Workers, w \in Workers :
       ~ /\ v # w
         /\ \/ lastScreenText'[v] # lastScreenText[v]
            \/ status'[v] # status[v]
            \/ currentTask'[v] # currentTask[v]
            \/ outputLog'[v] # outputLog[v]
         /\ SessionNext({w})]_vars

\* one session was started and a tick stored its screen, the other was sent
\* a task before it was ever started: each holds what its own operations left
C22_Witness ==
  \E w \in Workers, v \in Workers :
    /\ v # w
    /\ lastTick[w] = "changed"
    /\ lastScreenText[w] # <<>>
    /\ status[w] = "starting"
    /\ currentTask[w] = "null"
    /\ lastScreenText[v] = <<>>
    /\ status[v] = "idle"
    /\ currentTask[v] # "null"
    /\ outputLog[v] # <<>>

\* C31 as stated: a result message handled from a socket that a later
\* registration of its page has superseded resolves no pending request and
\* is not broadcast to the dashboards.
C31_Original ==
  [][\A c \in Conns, id \in Ids, p \in Payloads :
       (msgCount' # msgCount /\ closeBy[c] = "replaced"
          /\ SkyeyesResult(c, id, p)) =>
          /\ pendingEvals' = pendingEvals
          /\ handle' = handle
          /\ dashInbox' = dashInbox]_vars

\* C32: a request of the exec/eval routes that was put on a socket has its
\* pending entry from that very step on, until it is settled: no state has
\* a sent, unsettled request without its entry, so a result handled for it
\* finds the entry and resolves it.
C32_SentIsPending ==
  /\ [](\A id \in Ids :
          (reqKind[id] = "exec" /\ \E c \in Conns : id \in RoutedTo(c)) =>
             (id \in pendingEvals \/ handle[id].state \in {"resolved", "rejected"}))
  /\ [][\A c \in Conns, id \in Ids, p \in Payloads :
          (msgCount' # msgCount /\ reqKind[id] = "exec"
             /\ handle[id].state \notin {"resolved", "rejected"}
             /\ (\E b \in Conns : id \in RoutedTo(b))
             /\ SkyeyesResult(c, id, p)) =>
             handle'[id].state = "resolved"]_vars

\* the one request sent so far was resolved by the first message the hub
\* ever handled, on the socket it was sent to
C32_Witness ==
  \E c \in Conns, id \in Ids :
    /\ reqKind[id] = "exec"
    /\ id \in RoutedTo(c)
    /\ handle[id].state = "resolved"
    /\ handle[id].via = c
    /\ msgCount = 1
    /\ nextId = id + 1

\* C34: a sweep does not evict a registered socket that has no ping
\* unanswered (every ping it was sent was followed by a pong the hub
\* handled): it stays registered and is not terminated, at every sweep.
C34_PongKeepsAlive ==
  [][\A c \in Conns :
       (readyState[c] \in {"OPEN", "CLOSING"} /\ skyeyesBridges[connPage[c]] = c
          /\ c \notin pingOutstanding /\ HeartbeatSweep) =>
          /\ skyeyesBridges'[connPage[c]] = c
          /\ readyState'[c] = readyState[c]
          /\ closeBy'[c] = closeBy[c]]_vars

\* the first socket is still registered and alive after the sweeps that
\* pinged and then evicted the socket of another page that arrived later
C34_Witness ==
  \E a, b \in Conns :
    /\ b < a
    /\ closeBy[a] = "terminated"
    /\ connPage[a] # connPage[b]
    /\ skyeyesBridges[connPage[b]] = b
    /\ readyState[b] = "OPEN"
    /\ b \in aliveBridges
    /\ b \notin pingOutstanding

\* C35: a socket is in aliveBridges from its registration on; nothing but
\* a sweep takes it out; and a sweep does not evict a registered socket
\* that is in aliveBridges.  So the first sweep after a registration pings
\* the new socket and never evicts it, whatever the record of the socket
\* it replaced.
C35_AliveAtRegistration ==
  /\ [][\A c \in Conns, page \in Pages :
          (readyState[c] = "NONE" /\ readyState'[c] = "OPEN"
             /\ ConnectSkyeyes(c, page)) => c \in aliveBridges']_vars
  /\ [][\A c \in Conns :
          (c \in aliveBridges /\ c \notin aliveBridges') => HeartbeatSweep]_vars
  /\ [][\A c \in Conns :
          (c \in aliveBridges /\ readyState[c] \in {"OPEN", "CLOSING"}
             /\ skyeyesBridges[connPage[c]] = c /\ HeartbeatSweep) =>
             /\ skyeyesBridges'[connPage[c]] = c
             /\ closeBy'[c] = closeBy[c]
             /\ c \in pingOutstanding']_vars

\* a socket replaced one that had not answered its ping, and the sweep
\* after that pinged the new socket and left it registered
C35_Witness ==
  \E a, b \in Conns :
    /\ a # b
    /\ closeBy[a] = "replaced"
    /\ a \notin aliveBridges
    /\ connPage[a] = connPage[b]
    /\ skyeyesBridges[connPage[b]] = b
    /\ readyState[b] = "OPEN"
    /\ b \in pingOutstanding
    /\ b \notin aliveBridges

\* C33: every pending entry has its timeout armed, and every request that
\* is pending is removed from the pending map later on, by a result or by
\* its timeout, whatever becomes of the socket it was sent to.
C33_PendingDrains ==
  /\ [](pendingEvals \subseteq timers)
  /\ \A id \in Ids : (id \in pendingEvals) ~> (id \notin pendingEvals)

\* a request left the pending map by its timeout after the socket it was
\* sent to was evicted, and no message was ever received
C33_Witness ==
  \E c \in Conns, id \in Ids :
    /\ id \in RoutedTo(c)
    /\ closeBy[c] = "terminated"
    /\ skyeyesBridges[connPage[c]] = NoConn
    /\ msgCount = 0
    /\ handle[id].state = "rejected"
    /\ id \notin pendingEvals
    /\ pendingEvals = {}

\* C36 as stated: a session has at most one poll timer (the one
\* this.pollTimer holds: startPolling clears it before it sets another),
\* and from a shutdown() until the next call of start() it has none.
C36_Original ==
  \A w \in Workers : halted[w] => pollTimer[w] = "null"

\* C37: a sendMessage or an interrupt whose tmux command fails leaves the
\* status as it was and ends with an error entry as the last log entry.
C37_FailedDelivery ==
  /\ [][\A w \in Workers, text \in Texts :
          (ops' # ops /\ sendMessage(w, text, FALSE)) =>
             /\ status'[w] = status[w]
             /\ LastLog(outputLog'[w]) =
                  [type |-> "error", content |-> <<"Failed to send message">>]]_vars
  /\ [][\A w \in Workers :
          (ops' # ops /\ interrupt(w, FALSE)) =>
             /\ status'[w] = status[w]
             /\ LastLog(outputLog'[w]) =
                  [type |-> "error", content |-> <<"Failed to interrupt">>]]_vars

\* a send failed after the start of the session had failed: the status is
\* still error, not working
C37_Witness ==
  \E w \in Workers :
    /\ status[w] = "error"
    /\ currentTask[w] # "null"
    /\ lastError[w] = "send-keys throws"
    /\ LastLog(outputLog[w]) = [type |-> "error", content |-> <<"Failed to send message">>]

\* C38: the log never holds more than maxLogEntries entries; a step that
\* makes n calls of onLogEntry puts n entries at the end of the log and
\* keeps before them the latest entries it had, in their order, as many as
\* fit; a step that makes no call leaves the log as it is.
C38_LogCap ==
  /\ [](\A w \in Workers : Len(outputLog[w]) <= maxLogEntries)
  /\ [][\A w \in Workers :
          LET n == logEvents'[w] - logEvents[w]
              old == outputLog[w]
              new == outputLog'[w]
              kept == Len(new) - n
          IN /\ n >= 0
             /\ n = 0 => new = old
             /\ n > 0 =>
                  /\ Len(new) = IF Len(old) + n > maxLogEntries
                                  THEN maxLogEntries ELSE Len(old) + n
                  /\ kept >= 0
                  /\ SubSeq(new, 1, kept) = SubSeq(old, Len(old) - kept + 1, Len(old))]_vars

\* the log is full and its oldest entries were dropped: more entries were
\* delivered than it holds
C38_Witness ==
  \E w \in Workers :
    /\ Len(outputLog[w]) = maxLogEntries
    /\ logEvents[w] > maxLogEntries
    /\ outputLog[w][1].type # "system"

====
